---- MODULE Spec2Model ----
(***************************************************************************)
(* Process launch and job control of the shell in src/shell.c (the second  *)
(* translation unit of the file, lines 218-539).                           *)
(*                                                                         *)
(* A C string is a sequence of one-character strings, so that strchr,      *)
(* strsep, strcpy and strcat are computed and not assumed.  A char* that   *)
(* may be NULL is the token NULL; an environment value that may be absent  *)
(* is a sequence of length 0 (NULL) or 1 (the string).                     *)
(***************************************************************************)
EXTENDS Integers, Sequences, FiniteSets, TLC

VARIABLES
    isatty,                \* isatty(STDIN_FILENO): the environment of the session
    shell_pgrp,            \* getpgrp() of the shell: the group it belongs to
    tty_accepts_pid,       \* tcsetpgrp takes the pid of a process that leads no group
    PATH,                  \* the PATH environment variable: <<>> unset, <<s>> set
    shell_is_interactive,  \* global, line 233
    shell_pgid,            \* global, line 242
    shell_tmodes,          \* global, line 239
    shell_sig,             \* the shell's signal dispositions
    tty_pgrp,              \* the terminal's foreground process group
    tty_modes,             \* the terminal's current modes
    pc,                    \* where the shell's single thread is
    tokens,                \* the command line of the launch in progress
    pid,                   \* launch_process's local pid
    waited,                \* what wait(NULL) returned in this launch (0: not called)
    issued,                \* the system calls the shell has made in this launch
    proc                   \* the children forked so far, by pid

vars == <<isatty, shell_pgrp, tty_accepts_pid, PATH, shell_is_interactive, shell_pgid,
          shell_tmodes, shell_sig, tty_pgrp, tty_modes, pc, tokens, pid,
          waited, issued, proc>>

env == <<isatty, shell_pgrp, tty_accepts_pid, PATH>>

-----------------------------------------------------------------------------
(* Bounds and identities. *)

MaxChildren == 3

ShellPid == 10
LauncherPid == 9
FirstChildPid == 11

ChildPids == FirstChildPid .. (FirstChildPid + MaxChildren - 1)

NULL == <<"NULL">>
LT == <<"<">>
GT == <<">">>
AMP == <<"&">>

\* the stream a child inherits from the shell
INHERITED == <<"inherited">>

JobSignals == {"SIGINT", "SIGTSTP", "SIGTTOU"}

-----------------------------------------------------------------------------
(* The file system and the environment the children run in. *)

\* paths whose execv succeeds
Executables == { <<"/", "b", "/", "f">>, <<"/", "f">> }

\* files fopen(.., "r") opens
Readable == { <<"i">> }

\* files fopen(.., "w") opens (creates or truncates)
Writable == { <<"o">> }

-----------------------------------------------------------------------------
(* Pure functions of the source. *)

\* line 466: strchr(cmd, '/') == NULL
cmd_needs_path_resolution(cmd) ==
    \A i \in 1..Len(cmd) : cmd[i] # "/"

\* lines 470-481
program_needs_io_redirection(toks) ==
    \E i \in 1..Len(toks) : toks[i] = LT \/ toks[i] = GT

\* a launcher that never takes the background branch
never_in_background(toks) == FALSE

\* lines 505-515
program_needs_put_in_background(toks) ==
    \E i \in 1..Len(toks) : toks[i] = AMP

\* lines 286-291 and 327-332: the index in cmd_table, -1 when absent
lookup(cmd) ==
    CASE cmd = <<"?">> -> 0
      [] cmd = <<"e", "x", "i", "t">> -> 1
      [] cmd = <<"p", "w", "d">> -> 2
      [] cmd = <<"c", "d">> -> 3
      [] OTHER -> -1

\* lines 420-428: cmd_argv, the tokens followed by a null pointer
build_cmd_argv(toks) == Append(toks, NULL)

\* what a consumer of a null-terminated char*[] sees: the slots before the
\* first null pointer
ArgvOf(argv) ==
    LET nulls == { i \in 1..Len(argv) : argv[i] = NULL }
    IN  IF nulls = {} THEN argv
        ELSE SubSeq(argv, 1, (CHOOSE i \in nulls : \A j \in nulls : i <= j) - 1)

\* the slot the loop of lines 484-496 stops at: the first of the argc slots
\* holding "<" or ">", 0 when there is none
first_redirect(argc, argv) ==
    LET ops == { i \in 1..argc : argv[i] = LT \/ argv[i] = GT }
    IN  IF ops = {} THEN 0 ELSE CHOOSE i \in ops : \A j \in ops : i <= j

\* fopen(name, mode) != NULL
fopen_ok(name, mode) ==
    /\ name # NULL
    /\ IF mode = "r" THEN name \in Readable ELSE name \in Writable

\* lines 483-497, when every call is defined: the argument vector and the
\* bindings of standard input and output afterwards
process_redirects_io(argc, argv, in, out) ==
    LET i == first_redirect(argc, argv)
    IN  IF i = 0 THEN [argv |-> argv, in |-> in, out |-> out]
        ELSE IF argv[i] = LT
        THEN [argv |-> [argv EXCEPT ![i] = NULL], in |-> argv[i + 1], out |-> out]
        ELSE [argv |-> [argv EXCEPT ![i] = NULL], in |-> in, out |-> argv[i + 1]]

\* lines 486-487 and 491-492: fopen returns NULL and fileno(NULL) is called
redirect_undefined(argc, argv) ==
    LET i == first_redirect(argc, argv)
    IN  /\ i # 0
        /\ ~fopen_ok(argv[i + 1], IF argv[i] = LT THEN "r" ELSE "w")

\* lines 530-539
cmd_line_remove_put_process_in_background_flag(argv) ==
    LET live == ArgvOf(argv)
        amps == { i \in 1..Len(live) : live[i] = AMP }
    IN  IF amps = {} THEN argv
        ELSE [argv EXCEPT ![CHOOSE i \in amps : \A j \in amps : i <= j] = NULL]

\* strsep(&s, ":") on a non-null s: the field returned and the new value of s
\* (<<>> is NULL, <<r>> the rest after the delimiter)
strsep(s) ==
    LET seps == { i \in 1..Len(s) : s[i] = ":" }
    IN  IF seps = {} THEN [field |-> s, rest |-> <<>>]
        ELSE LET k == CHOOSE i \in seps : \A j \in seps : i <= j
             IN  [field |-> SubSeq(s, 1, k - 1),
                  rest |-> <<SubSeq(s, k + 1, Len(s))>>]

\* lines 445-447: strcpy(full, dir); strcat(full, "/"); strcat(full, cmd)
full_path_cmd(each_dir, cmd) == each_dir \o <<"/">> \o cmd

\* a loop that leaves the candidate in cmd_argv[0]
keep_full_path(cmd_tmp, full) == full

\* line 456: cmd_argv[0] after a failed execv
restore_cmd(cmd_tmp, full) == cmd_tmp

\* execv(path, ..) replaces the image
execv_ok(path) == path \in Executables

-----------------------------------------------------------------------------
(* Processes. *)

NoProc ==
    [st |-> "none", pgid |-> 0, sig |-> [s \in JobSignals |-> "DFL"],
     tokens |-> <<>>, argv |-> <<>>, path_env |-> <<>>,
     in |-> INHERITED, out |-> INHERITED,
     tried |-> <<>>, image |-> NULL, passed |-> <<>>,
     ret |-> 0, status |-> 0, diag |-> NULL]

\* fork(), line 400: the child is a copy of the shell, in the shell's group
forked_child(toks) ==
    [NoProc EXCEPT !.st = "forked", !.pgid = shell_pgrp, !.sig = shell_sig,
                   !.tokens = toks]

Unreaped == { p \in ChildPids : proc[p].st \notin {"none", "reaped"} }
Zombies == { p \in ChildPids : proc[p].st = "zombie" }
Terminated == { p \in ChildPids : proc[p].st \in {"zombie", "reaped"} }
BeforeExec == { p \in ChildPids : proc[p].st \in {"forked", "setup", "resolve", "direct", "failed"} }

\* the process groups of the session that have a member
Groups == {shell_pgrp} \cup { proc[p].pgid : p \in Unreaped }

\* the processes of the session
Pids == {ShellPid} \cup Unreaped

\* a tcsetpgrp that would reach the session's terminal whatever standard
\* input is
tcsetpgrp_any_stream(pgrp) ==
    IF pgrp \in Groups \/ (tty_accepts_pid /\ pgrp \in Pids)
    THEN pgrp
    ELSE tty_pgrp

\* tcsetpgrp(shell_terminal, pgrp) called by the shell: the terminal's
\* foreground group afterwards.  It fails (ENOTTY) when standard input is no
\* terminal and (EINVAL, EPERM) when pgrp names no group of the session;
\* Linux also takes the pid of a process of the session that leads no group,
\* POSIX does not.  A caller in a background group needs SIGTTOU ignored.
tcsetpgrp(pgrp) ==
    IF /\ isatty
       /\ pgrp \in Groups \/ (tty_accepts_pid /\ pgrp \in Pids)
       /\ (shell_pgrp = tty_pgrp \/ shell_sig["SIGTTOU"] = "IGN")
    THEN pgrp
    ELSE tty_pgrp

\* tcsetattr(shell_terminal, TCSADRAIN, &shell_tmodes) called by the shell
tcsetattr(modes) ==
    IF isatty /\ (shell_pgrp = tty_pgrp \/ shell_sig["SIGTTOU"] = "IGN")
    THEN modes
    ELSE tty_modes

-----------------------------------------------------------------------------
(* The shell. *)

\* lines 335-363
init_shell ==
    /\ pc = "init_shell"
    /\ shell_is_interactive' = isatty
    /\ IF isatty
       THEN /\ shell_sig' = [s \in JobSignals |-> "IGN"]
            /\ shell_pgid' = ShellPid
            /\ tty_pgrp' = tcsetpgrp(ShellPid)
            /\ shell_tmodes' = tty_modes
       ELSE UNCHANGED <<shell_sig, shell_pgid, tty_pgrp, shell_tmodes>>
    /\ pc' = "read"
    /\ UNCHANGED <<env, tty_modes, tokens, pid, waited, issued, proc>>

\* fgets on the terminal succeeds only for a member of its foreground group
can_read == ~isatty \/ tty_pgrp = shell_pgrp

\* lines 375-386 and 400: a line is read and is no built-in; fork succeeds
main_launch(line) ==
    /\ pc = "read"
    /\ can_read
    /\ lookup(line[1]) < 0
    /\ \E p \in ChildPids :
        /\ proc[p].st = "none"
        /\ \A q \in ChildPids : q < p => proc[q].st # "none"
        /\ pid' = p
        /\ proc' = [proc EXCEPT ![p] = forked_child(line)]
    /\ tokens' = line
    /\ waited' = 0
    /\ issued' = {"fork"}
    /\ pc' = "setpgid"
    /\ UNCHANGED <<env, shell_is_interactive, shell_pgid, shell_tmodes,
                   shell_sig, tty_pgrp, tty_modes>>

\* lines 375-386 and 400: a line is read and is no built-in; fork fails
main_launch_fork_fails(line) ==
    /\ pc = "read"
    /\ can_read
    /\ lookup(line[1]) < 0
    /\ pid' = -1
    /\ tokens' = line
    /\ waited' = 0
    /\ issued' = {"fork"}
    /\ pc' = "setpgid"
    /\ UNCHANGED <<env, shell_is_interactive, shell_pgid, shell_tmodes,
                   shell_sig, tty_pgrp, tty_modes, proc>>

\* lines 375, 382-383, 301-303 and 396: end of input, a failed read, or the
\* built-in exit
main_exit ==
    /\ pc = "read"
    /\ pc' = "exit"
    /\ UNCHANGED <<env, shell_is_interactive, shell_pgid, shell_tmodes,
                   shell_sig, tty_pgrp, tty_modes, tokens, pid, waited, issued,
                   proc>>

\* lines 401 and 409-416 in the parent: setpgid(pid, pid), which moves a child
\* that has not yet executed a program, then the choice of the branch;
\* put_process_in_background (lines 526-528) does nothing
launch_process_parent ==
    /\ pc = "setpgid"
    /\ proc' = IF pid \in BeforeExec
               THEN [proc EXCEPT ![pid].pgid = pid]
               ELSE proc
    /\ issued' = issued \cup {"setpgid"}
    /\ pc' = IF program_needs_put_in_background(tokens) THEN "read" ELSE "give"
    /\ UNCHANGED <<env, shell_is_interactive, shell_pgid, shell_tmodes,
                   shell_sig, tty_pgrp, tty_modes, tokens, pid, waited>>

\* line 518
put_process_in_foreground_give ==
    /\ pc = "give"
    /\ tty_pgrp' = tcsetpgrp(pid)
    /\ issued' = issued \cup {"tcsetpgrp"}
    /\ pc' = "wait"
    /\ UNCHANGED <<env, shell_is_interactive, shell_pgid, shell_tmodes,
                   shell_sig, tty_modes, tokens, pid, waited, proc>>

\* line 519: wait(NULL) reaps a terminated child, whichever it is
put_process_in_foreground_wait ==
    /\ pc = "wait"
    /\ \E z \in Zombies :
        /\ proc' = [proc EXCEPT ![z].st = "reaped"]
        /\ waited' = z
    /\ issued' = issued \cup {"wait"}
    /\ pc' = "reclaim"
    /\ UNCHANGED <<env, shell_is_interactive, shell_pgid, shell_tmodes,
                   shell_sig, tty_pgrp, tty_modes, tokens, pid>>

\* line 519: wait(NULL) fails with ECHILD when the shell has no child
put_process_in_foreground_wait_echild ==
    /\ pc = "wait"
    /\ Unreaped = {}
    /\ waited' = -1
    /\ issued' = issued \cup {"wait"}
    /\ pc' = "reclaim"
    /\ UNCHANGED <<env, shell_is_interactive, shell_pgid, shell_tmodes,
                   shell_sig, tty_pgrp, tty_modes, tokens, pid, proc>>

\* line 520
put_process_in_foreground_reclaim ==
    /\ pc = "reclaim"
    /\ tty_pgrp' = tcsetpgrp(shell_pgid)
    /\ issued' = issued \cup {"tcsetpgrp"}
    /\ pc' = "restore"
    /\ UNCHANGED <<env, shell_is_interactive, shell_pgid, shell_tmodes,
                   shell_sig, tty_modes, tokens, pid, waited, proc>>

\* line 523, and the return to the loop of main
put_process_in_foreground_restore ==
    /\ pc = "restore"
    /\ tty_modes' = tcsetattr(shell_tmodes)
    /\ issued' = issued \cup {"tcsetattr"}
    /\ pc' = "read"
    /\ UNCHANGED <<env, shell_is_interactive, shell_pgid, shell_tmodes,
                   shell_sig, tty_pgrp, tokens, pid, waited, proc>>

shell_unchanged ==
    UNCHANGED <<env, shell_is_interactive, shell_pgid, shell_tmodes,
                shell_sig, pc, tokens, pid, waited, issued>>

-----------------------------------------------------------------------------
(* A child, from fork to exec or exit. *)

\* a child that goes on in the group it was forked in
child_skips_setpgid(p) ==
    /\ proc[p].st = "forked"
    /\ proc' = [proc EXCEPT ![p].st = "setup"]
    /\ UNCHANGED <<tty_pgrp, tty_modes>>
    /\ shell_unchanged

\* line 401 in the child: setpgid(0, 0)
child_setpgid(p) ==
    /\ proc[p].st = "forked"
    /\ proc' = [proc EXCEPT ![p].pgid = p, ![p].st = "setup"]
    /\ UNCHANGED <<tty_pgrp, tty_modes>>
    /\ shell_unchanged

\* a child that keeps the dispositions it inherited
keeps_dispositions(sig) == sig

\* lines 499-503: the three dispositions after init_child_process
init_child_process(sig) == [s \in JobSignals |-> "DFL"]

\* the child's state after lines 404 and 420-438 when every call is defined
child_after_setup(c) ==
    LET argc == Len(c.tokens)
        r == IF program_needs_io_redirection(c.tokens)
             THEN process_redirects_io(argc, build_cmd_argv(c.tokens), c.in, c.out)
             ELSE [argv |-> build_cmd_argv(c.tokens), in |-> c.in, out |-> c.out]
        argv == IF program_needs_put_in_background(c.tokens)
                THEN cmd_line_remove_put_process_in_background_flag(r.argv)
                ELSE r.argv
    IN  [c EXCEPT !.sig = init_child_process(c.sig),
                  !.argv = argv, !.in = r.in, !.out = r.out,
                  !.path_env = IF cmd_needs_path_resolution(argv[1]) THEN PATH ELSE <<>>,
                  !.st = IF cmd_needs_path_resolution(argv[1]) THEN "resolve" ELSE "direct"]

\* the same lines when fopen fails and fileno(NULL) returns: dup2 rebinds
\* nothing and the child goes on with the stream it inherited
child_after_failed_open(c) ==
    LET i == first_redirect(Len(c.tokens), build_cmd_argv(c.tokens))
        a == [build_cmd_argv(c.tokens) EXCEPT ![i] = NULL]
        argv == IF program_needs_put_in_background(c.tokens)
                THEN cmd_line_remove_put_process_in_background_flag(a)
                ELSE a
    IN  [c EXCEPT !.sig = init_child_process(c.sig),
                  !.argv = argv,
                  !.path_env = IF cmd_needs_path_resolution(argv[1]) THEN PATH ELSE <<>>,
                  !.st = IF cmd_needs_path_resolution(argv[1]) THEN "resolve" ELSE "direct"]

\* lines 404 and 420-438: init_child_process, the argument vector, the
\* redirection, the background flag
child_setup(p) ==
    /\ proc[p].st = "setup"
    /\ ~redirect_undefined(Len(proc[p].tokens), build_cmd_argv(proc[p].tokens))
    /\ proc' = [proc EXCEPT ![p] = child_after_setup(proc[p])]
    /\ UNCHANGED <<tty_pgrp, tty_modes>>
    /\ shell_unchanged

\* lines 486-487 and 491-492 with fopen returning NULL: fileno(NULL) is
\* undefined; the child is killed by SIGSEGV or goes on
child_setup_undefined(p) ==
    /\ proc[p].st = "setup"
    /\ redirect_undefined(Len(proc[p].tokens), build_cmd_argv(proc[p].tokens))
    /\ \/ proc' = [proc EXCEPT ![p].sig = init_child_process(proc[p].sig),
                               ![p].st = "zombie", ![p].status = -11]
       \/ proc' = [proc EXCEPT ![p] = child_after_failed_open(proc[p])]
    /\ UNCHANGED <<tty_pgrp, tty_modes>>
    /\ shell_unchanged

\* lines 443-457: one turn of the loop, or its end and line 459
child_resolve(p) ==
    /\ proc[p].st = "resolve"
    /\ LET c == proc[p] IN
       IF c.path_env = <<>>
       THEN proc' = [proc EXCEPT ![p].st = "failed", ![p].ret = -1]
       ELSE LET s == strsep(c.path_env[1])
                full == full_path_cmd(s.field, c.argv[1])
                passed == [c.argv EXCEPT ![1] = full]
            IN  IF execv_ok(full)
                THEN proc' = [proc EXCEPT ![p].st = "running",
                                          ![p].path_env = s.rest,
                                          ![p].tried = Append(c.tried, full),
                                          ![p].image = full,
                                          ![p].passed = ArgvOf(passed)]
                ELSE proc' = [proc EXCEPT ![p].path_env = s.rest,
                                          ![p].tried = Append(c.tried, full),
                                          ![p].argv[1] = restore_cmd(c.argv[1], full)]
    /\ UNCHANGED <<tty_pgrp, tty_modes>>
    /\ shell_unchanged

\* line 461
child_direct(p) ==
    /\ proc[p].st = "direct"
    /\ LET c == proc[p] IN
       IF execv_ok(c.argv[1])
       THEN proc' = [proc EXCEPT ![p].st = "running",
                                 ![p].tried = Append(c.tried, c.argv[1]),
                                 ![p].image = c.argv[1],
                                 ![p].passed = ArgvOf(c.argv)]
       ELSE proc' = [proc EXCEPT ![p].st = "failed", ![p].ret = -1,
                                 ![p].tried = Append(c.tried, c.argv[1])]
    /\ UNCHANGED <<tty_pgrp, tty_modes>>
    /\ shell_unchanged

\* a child that leaves launch_process after execute_cmd has returned
child_falls_through(c) == [c EXCEPT !.st = "returned"]

\* lines 405-408 once execute_cmd has returned c.ret: for -1 the diagnostic
\* goes to standard output and the child exits with status 1; otherwise the
\* child returns from launch_process into the loop of main
after_execute_cmd(c) ==
    IF c.ret = -1
    THEN [c EXCEPT !.st = "zombie", !.status = 1, !.diag = c.out]
    ELSE [c EXCEPT !.st = "returned"]

\* lines 405-408
child_exec_failed(p) ==
    /\ proc[p].st = "failed"
    /\ proc' = [proc EXCEPT ![p] = after_execute_cmd(proc[p])]
    /\ UNCHANGED <<tty_pgrp, tty_modes>>
    /\ shell_unchanged

-----------------------------------------------------------------------------
(* The program a child has become. *)

\* it changes the terminal's modes; only a member of the foreground group
\* may (the others get SIGTTOU, default after line 502)
prog_tcsetattr(p) ==
    /\ proc[p].st = "running"
    /\ isatty
    /\ proc[p].pgid = tty_pgrp
    /\ tty_modes' = "raw"
    /\ UNCHANGED <<tty_pgrp, proc>>
    /\ shell_unchanged

\* a stop signal reaches it: SIGTSTP from the terminal, default after line 501
prog_stop(p) ==
    /\ proc[p].st = "running"
    /\ isatty
    /\ proc[p].pgid = tty_pgrp
    /\ proc[p].sig["SIGTSTP"] = "DFL"
    /\ proc' = [proc EXCEPT ![p].st = "stopped"]
    /\ UNCHANGED <<tty_pgrp, tty_modes>>
    /\ shell_unchanged

\* SIGCONT reaches it
prog_cont(p) ==
    /\ proc[p].st = "stopped"
    /\ proc' = [proc EXCEPT ![p].st = "running"]
    /\ UNCHANGED <<tty_pgrp, tty_modes>>
    /\ shell_unchanged

\* it terminates
prog_exit(p) ==
    /\ proc[p].st = "running"
    /\ proc' = [proc EXCEPT ![p].st = "zombie", ![p].status = 0]
    /\ UNCHANGED <<tty_pgrp, tty_modes>>
    /\ shell_unchanged

-----------------------------------------------------------------------------
(* Specifications. *)

f == <<"f">>
n == <<"n">>

\* the command lines of the sessions checked
JobLines ==
    { <<f>>, <<f, AMP>>, <<n>>, << <<"/", "f">>, LT, <<"m">> >> }

\* the values of PATH of the sessions checked
JobPaths == { << <<"/", "a", ":", "/", "b">> >> }

\* The startup situations.  Without a terminal every terminal call fails, so
\* the shell's group and the platform's rule for tcsetpgrp make no difference
\* there; the rule is consulted only for an id that is no group, which the
\* shell passes only when it leads no group.
Init ==
    /\ isatty \in BOOLEAN
    /\ shell_pgrp \in IF isatty THEN {ShellPid, LauncherPid} ELSE {ShellPid}
    /\ tty_accepts_pid \in IF isatty /\ shell_pgrp # ShellPid THEN BOOLEAN ELSE {FALSE}
    /\ PATH \in JobPaths
    /\ shell_is_interactive = FALSE
    /\ shell_pgid = 0
    /\ shell_tmodes = "zero"
    /\ shell_sig = [s \in JobSignals |-> "DFL"]
    /\ tty_pgrp = shell_pgrp
    /\ tty_modes = "cooked"
    /\ pc = "init_shell"
    /\ tokens = <<>>
    /\ pid = 0
    /\ waited = 0
    /\ issued = {}
    /\ proc = [p \in ChildPids |-> NoProc]

\* the steps the shell takes without input
ShellRun ==
    \/ init_shell
    \/ launch_process_parent
    \/ put_process_in_foreground_give
    \/ put_process_in_foreground_wait
    \/ put_process_in_foreground_wait_echild
    \/ put_process_in_foreground_reclaim
    \/ put_process_in_foreground_restore

ShellStep ==
    \/ \E line \in JobLines : main_launch(line)
    \/ \E line \in JobLines : main_launch_fork_fails(line)
    \/ main_exit
    \/ ShellRun

ChildStep(p) ==
    \/ child_setpgid(p)
    \/ child_setup(p)
    \/ child_setup_undefined(p)
    \/ child_resolve(p)
    \/ child_direct(p)
    \/ child_exec_failed(p)

ProgStep(p) ==
    \/ prog_tcsetattr(p)
    \/ prog_stop(p)
    \/ prog_cont(p)
    \/ prog_exit(p)

Next ==
    \/ ShellStep
    \/ \E p \in ChildPids : ChildStep(p)
    \/ \E p \in ChildPids : ProgStep(p)

Spec == Init /\ [][Next]_vars

\* every process that can run does: the shell's thread and each child up to
\* its exec or exit are scheduled; what a program does is up to the program
FairSpec ==
    /\ Spec
    /\ WF_vars(ShellRun)
    /\ \A p \in ChildPids : WF_vars(ChildStep(p))

-----------------------------------------------------------------------------
(* execute_cmd on its own: a child right after fork, for each command line  *)
(* and each value of PATH.                                                  *)

x == <<"x">>
i_file == <<"i">>
o_file == <<"o">>
m_file == <<"m">>

ExecLines ==
    { <<f>>, <<n>>, <<f, AMP>>, <<f, x, AMP>>, <<f, AMP, x>>,
      << <<"/", "f">> >>, << <<".", "/", "x">> >>,
      <<f, x, GT, o_file>>, <<n, GT, o_file>>,
      <<f, LT, i_file, GT, o_file>>, <<f, GT, o_file, LT, i_file>>,
      <<f, LT, i_file, x>>, <<f, GT>>, <<f, LT, m_file>> }

ExecPaths ==
    { <<>>, << <<>> >>,
      << <<"/", "a", ":", "/", "b">> >>,
      << <<"/", "b", ":", "/", "a">> >>,
      << <<"/", "a", ":", "/", "c">> >>,
      << <<"/", "a", ":", ":", "/", "b">> >> }

InitExec ==
    /\ isatty \in BOOLEAN
    /\ shell_pgrp = ShellPid
    /\ tty_accepts_pid = FALSE
    /\ PATH \in ExecPaths
    /\ shell_is_interactive = isatty
    /\ shell_pgid = IF isatty THEN ShellPid ELSE 0
    /\ shell_tmodes = IF isatty THEN "cooked" ELSE "zero"
    /\ shell_sig = [s \in JobSignals |-> IF isatty THEN "IGN" ELSE "DFL"]
    /\ tty_pgrp = ShellPid
    /\ tty_modes = "cooked"
    /\ pc = "setpgid"
    /\ tokens \in ExecLines
    /\ pid = FirstChildPid
    /\ waited = 0
    /\ issued = {"fork"}
    /\ proc = [p \in ChildPids |->
                 IF p = FirstChildPid THEN forked_child(tokens) ELSE NoProc]

NextExec == \E p \in ChildPids : ChildStep(p)

ExecSpec == InitExec /\ [][NextExec]_vars

-----------------------------------------------------------------------------
(* One launch from the fork to the return to the loop of main, parent and   *)
(* child interleaved, for each command line and each value of PATH.         *)

NextLaunch ==
    \/ launch_process_parent
    \/ put_process_in_foreground_give
    \/ put_process_in_foreground_wait
    \/ put_process_in_foreground_reclaim
    \/ put_process_in_foreground_restore
    \/ \E p \in ChildPids : ChildStep(p)
    \/ \E p \in ChildPids : ProgStep(p)

LaunchSpec == InitExec /\ [][NextLaunch]_vars

-----------------------------------------------------------------------------
(* The claims. *)

\* a command line without "&": a foreground launch
ForegroundLine(toks) == \A i \in 1..Len(toks) : toks[i] # AMP

\* a command line ending in a standalone "&"
EndsInAmp(toks) == Len(toks) > 0 /\ toks[Len(toks)] = AMP

\* put_process_in_foreground has returned for the launch of `tokens`
ForegroundReturned ==
    pc = "read" /\ pid # 0 /\ ForegroundLine(tokens)

\* C1: once the wait of a foreground launch is over (the shell reclaims the
\* terminal, restores the modes or is back at its read loop), the child forked
\* for that launch has terminated.
C1_ForegroundWaitsForItsChild ==
    (/\ pc \in {"reclaim", "restore", "read"}
     /\ pid \in ChildPids
     /\ ForegroundLine(tokens))
    => pid \in Terminated

\* C2: at most one child launched in the foreground is alive at any time.
C2_OneForegroundJobAlive ==
    Cardinality({ p \in ChildPids :
                    /\ proc[p].st \notin {"none", "zombie", "reaped"}
                    /\ ForegroundLine(proc[p].tokens) }) <= 1

\* C3: in an interactive session, whenever put_process_in_foreground has
\* returned, the terminal's foreground process group is the shell's own and
\* the terminal's modes are the modes saved at startup.
C3_TerminalBackAfterForeground ==
    (shell_is_interactive /\ ForegroundReturned)
    => (tty_pgrp = shell_pgrp /\ tty_modes = shell_tmodes)

\* C4: during the launch of a command line ending in "&", from the fork until
\* the next line is read, no step changes the terminal's foreground process
\* group and no wait is performed.
C4_BackgroundLeavesTerminal ==
    [][(EndsInAmp(tokens') /\ pc' \in {"setpgid", "give", "wait", "reclaim", "restore", "read"})
       => (/\ tty_pgrp' = tty_pgrp
           /\ waited' = 0
           /\ pc' \in {"setpgid", "read"})]_vars

\* C4, witness: a background launch has returned to the read loop of an
\* interactive shell that owns the terminal, its child running
C4_Witness ==
    /\ pc = "read"
    /\ EndsInAmp(tokens)
    /\ pid \in ChildPids
    /\ proc[pid].st = "running"
    /\ shell_is_interactive
    /\ tty_pgrp = shell_pgrp
    /\ waited = 0

ForegroundChildStopped ==
    pid \in ChildPids /\ proc[pid].st = "stopped"

\* C5: when the foreground child is stopped while the shell waits for it, the
\* shell eventually is back at its read loop, unless the child is no longer
\* stopped: a child that stays stopped does not keep the shell waiting.
C5_StoppedChildReleasesShell ==
    (pc = "wait" /\ ForegroundChildStopped)
    ~> (pc = "read" \/ ~ForegroundChildStopped)

\* the argument vector C6 describes: each "<" or ">" and the token after it
\* removed, a trailing "&" removed
RECURSIVE claimed_argv(_)
claimed_argv(toks) ==
    IF toks = <<>> THEN <<>>
    ELSE IF toks[1] = LT \/ toks[1] = GT
    THEN claimed_argv(SubSeq(toks, 3, Len(toks)))
    ELSE IF toks = <<AMP>> THEN <<>>
    ELSE <<toks[1]>> \o claimed_argv(Tail(toks))

\* C6: the argument vector execute_cmd has built when it reaches exec is the
\* command line without its redirection operators, their filenames and a
\* trailing "&", and with every other token.
C6_ArgvIsLineWithoutOperators ==
    \A p \in ChildPids :
        proc[p].st \in {"resolve", "direct"}
        => ArgvOf(proc[p].argv) = claimed_argv(proc[p].tokens)

\* exactly one "<" and one ">", each followed by a file that can be opened
OneOfEach(toks) ==
    /\ Cardinality({ i \in 1..Len(toks) : toks[i] = LT }) = 1
    /\ Cardinality({ i \in 1..Len(toks) : toks[i] = GT }) = 1
    /\ \A i \in 1..Len(toks) :
        /\ toks[i] = LT => (i < Len(toks) /\ toks[i + 1] \in Readable)
        /\ toks[i] = GT => (i < Len(toks) /\ toks[i + 1] \in Writable)

\* C7: for a command line with exactly one "<" and one ">", when the child
\* reaches exec its argument vector holds neither operator nor filename, its
\* standard input is the file after "<" and its standard output the file
\* after ">".
C7_BothRedirectionsWired ==
    \A p \in ChildPids :
        (proc[p].st \in {"resolve", "direct"} /\ OneOfEach(proc[p].tokens))
        => LET toks == proc[p].tokens
               a == ArgvOf(proc[p].argv)
           IN  \A i \in 1..Len(toks) :
                 /\ toks[i] = LT =>
                      /\ proc[p].in = toks[i + 1]
                      /\ \A j \in 1..Len(a) : a[j] # LT /\ a[j] # toks[i + 1]
                 /\ toks[i] = GT =>
                      /\ proc[p].out = toks[i + 1]
                      /\ \A j \in 1..Len(a) : a[j] # GT /\ a[j] # toks[i + 1]

\* the directories of a PATH value, in order
RECURSIVE path_dirs(_)
path_dirs(s) ==
    IF \A k \in 1..Len(s) : s[k] # ":" THEN <<s>>
    ELSE LET k == CHOOSE k \in 1..Len(s) :
                    s[k] = ":" /\ \A j \in 1..(k - 1) : s[j] # ":"
         IN  <<SubSeq(s, 1, k - 1)>> \o path_dirs(SubSeq(s, k + 1, Len(s)))

\* the candidates of a bare name: d_i + "/" + cmd, in the order of PATH
candidates(cmd) ==
    LET dirs == path_dirs(PATH[1])
    IN  [k \in 1..Len(dirs) |-> dirs[k] \o <<"/">> \o cmd]

\* the child resolves a bare name along a PATH that names directories
Resolves(p) ==
    /\ proc[p].st \in {"resolve", "failed", "running", "stopped", "zombie", "reaped"}
    /\ proc[p].status # -11
    /\ PATH # <<>>
    /\ PATH[1] # <<>>
    /\ Len(proc[p].argv) > 0
    /\ cmd_needs_path_resolution(proc[p].tokens[1])

C9_EmptyPathNoAttempt ==
    \A p \in ChildPids :
        (/\ PATH = <<>> \/ PATH = << <<>> >>
         /\ proc[p].st \notin {"none", "forked", "setup"}
         /\ cmd_needs_path_resolution(proc[p].tokens[1]))
        => (proc[p].tried = <<>> /\ proc[p].image = NULL)

\* C10: when the shell is back at its read loop after a foreground child
\* whose exec failed has terminated, the child has printed the diagnostic and
\* exited with status 1, and the terminal is with the shell's process group.
C10_FailedExecSessionContinues ==
    (/\ ForegroundReturned
     /\ pid \in Terminated
     /\ proc[pid].ret = -1)
    => (/\ proc[pid].status = 1
        /\ proc[pid].diag # NULL
        /\ tty_pgrp = shell_pgrp)

\* C11: a child whose redirection names a file that cannot be opened, or
\* no file at all, never gets as far as an exec attempt: it makes no execv
\* call and never runs a program.
C11_FailedOpenStopsBeforeExec ==
    \A p \in ChildPids :
        (/\ proc[p].st \notin {"none", "forked"}
         /\ redirect_undefined(Len(proc[p].tokens), build_cmd_argv(proc[p].tokens)))
        => (/\ proc[p].st \in {"setup", "zombie", "reaped"}
            /\ proc[p].tried = <<>>
            /\ proc[p].image = NULL)

\* C12: a child that has terminated without having executed a program has
\* written a diagnostic to the stream the shell was started with, where the
\* user reads it.
C12_EveryAbortHasVisibleDiagnostic ==
    \A p \in ChildPids :
        (p \in Terminated /\ proc[p].image = NULL)
        => proc[p].diag = INHERITED

\* C13: after a failed fork the launch is abandoned: the shell makes no
\* setpgid, tcsetpgrp, wait or tcsetattr call for that command line and does
\* not enter put_process_in_foreground.
C13_ForkFailureAbandonsLaunch ==
    pid = -1
    => (/\ issued \subseteq {"fork"}
        /\ pc \notin {"give", "wait", "reclaim", "restore"})

\* C14 as stated: in a session that is not interactive no launch issues
\* tcsetpgrp or tcsetattr.
C14_NoTerminalCallIssued ==
    (~shell_is_interactive /\ pc # "init_shell")
    => issued \cap {"tcsetpgrp", "tcsetattr"} = {}

\* C14: in a session that is not interactive no step of a launch changes
\* the terminal's foreground process group or its modes; the calls the shell
\* issues fail.
C14_NoTerminalEffectWhenNotInteractive ==
    [][(~shell_is_interactive /\ pc # "init_shell")
       => UNCHANGED <<tty_pgrp, tty_modes>>]_vars

\* a foreground launch of a session that is not interactive has issued both
\* terminal calls and returned
C14_Witness ==
    /\ ~shell_is_interactive
    /\ ForegroundReturned
    /\ pid \in ChildPids
    /\ {"tcsetpgrp", "tcsetattr"} \subseteq issued

\* a command line without "<" and ">"
NoRedirection(toks) == \A i \in 1..Len(toks) : toks[i] # LT /\ toks[i] # GT

\* C15: a launch is a background launch exactly when the last token of its
\* line is "&": the shell is back at its read loop without having given the
\* terminal away and waited only for a line ending in "&"; and the argument
\* vector of a line whose last token is not "&" holds every token of the line
\* that is not an operator.
C15_BackgroundIffLastTokenIsAmp ==
    /\ (pc = "read" /\ pid \in ChildPids)
       => (EndsInAmp(tokens) <=> {"tcsetpgrp", "wait"} \cap issued = {})
    /\ \A p \in ChildPids :
        (/\ proc[p].st \in {"resolve", "direct"}
         /\ ~EndsInAmp(proc[p].tokens)
         /\ NoRedirection(proc[p].tokens))
        => \A i \in 1..Len(proc[p].tokens) :
              proc[p].tokens[i] # AMP
              => \E j \in 1..Len(ArgvOf(proc[p].argv)) :
                    ArgvOf(proc[p].argv)[j] = proc[p].tokens[i]

\* C16: a child that is past its own setpgid, and so every child that
\* attempts exec, is in the group whose id is its pid and not in the shell's
\* group; and so is the child of the launch when the shell is about to give it
\* the terminal, whichever of the two ran first.
C16_ChildLeadsItsOwnGroup ==
    /\ \A p \in ChildPids :
        proc[p].st \notin {"none", "forked"}
        => (proc[p].pgid = p /\ proc[p].pgid # shell_pgrp)
    /\ (pc = "give" /\ pid \in ChildPids)
       => (proc[pid].pgid = pid /\ proc[pid].pgid # shell_pgrp)

\* the shell is about to give the terminal to a child that has not run yet
C16_Witness ==
    /\ pc = "give"
    /\ pid \in ChildPids
    /\ proc[pid].st = "forked"
    /\ proc[pid].pgid = pid

\* C17: in an interactive session the shell ignores the three job-control
\* signals at every point after init_shell; every child that is at or past
\* its first exec attempt has the three at their default and leads its own
\* group; a child that has joined its group and not yet reset the signals has
\* built no argument vector, and one at its exec attempt has an argument
\* vector without "&".
C17_SignalsIgnoredInShellDefaultInChild ==
    /\ (shell_is_interactive /\ pc # "init_shell")
       => \A s \in JobSignals : shell_sig[s] = "IGN"
    /\ \A p \in ChildPids :
        /\ proc[p].st = "setup"
           => (proc[p].pgid = p /\ proc[p].argv = <<>>)
        /\ proc[p].st \in {"resolve", "direct", "failed", "running", "stopped"}
           => (/\ \A s \in JobSignals : proc[p].sig[s] = "DFL"
               /\ proc[p].pgid = p
               /\ \A j \in 1..Len(ArgvOf(proc[p].argv)) :
                     ArgvOf(proc[p].argv)[j] # AMP)

\* in an interactive session a child forked with the signals ignored is at
\* its exec attempt with the signals at their default
C17_Witness ==
    /\ shell_is_interactive
    /\ pc # "init_shell"
    /\ \E p \in ChildPids :
        /\ proc[p].st \in {"resolve", "direct"}
        /\ \A s \in JobSignals : proc[p].sig[s] = "DFL"

\* C18: while the program of a foreground job runs and the shell has not
\* returned from the launch, the terminal's foreground process group is the
\* job's group.
C18_RunningForegroundJobOwnsTerminal ==
    (/\ isatty
     /\ pid \in ChildPids
     /\ ForegroundLine(tokens)
     /\ pc \in {"setpgid", "give", "wait"}
     /\ proc[pid].st = "running")
    => tty_pgrp = proc[pid].pgid

\* C19: no child leaves launch_process: each one has its image replaced or
\* exits.
C19_ChildNeverReturnsToReadLoop ==
    \A p \in ChildPids : proc[p].st # "returned"

\* a child whose exec attempts have all failed has exited with status 1
C19_Witness ==
    \E p \in ChildPids :
        /\ proc[p].st = "zombie"
        /\ proc[p].ret = -1
        /\ proc[p].status = 1
        /\ proc[p].tried # <<>>

\* C20: in an interactive session shell_pgid is, after init_shell, the id of
\* the process group the shell belongs to.
C20_ShellPgidIsTheShellsGroup ==
    (shell_is_interactive /\ pc # "init_shell") => shell_pgid = shell_pgrp

====
